---- MODULE Spec2Model ----
(***************************************************************************)
(* The data layer of multi-memory-chat: the tables public.memories,        *)
(* public.memory_records and public.chat_messages, their row level         *)
(* security policies, the set_updated_at trigger of memories and the       *)
(* prune_chat_messages trigger of chat_messages.                           *)
(*                                                                         *)
(* A statement is one atomic action: PostgreSQL runs a statement, the      *)
(* triggers it fires and the foreign key actions it causes in one          *)
(* transaction, and an error anywhere in it undoes all of it.              *)
(***************************************************************************)
EXTENDS Integers, FiniteSets, Sequences, TLC

VARIABLES
    memories,   \* the rows of public.memories
    records,    \* the rows of public.memory_records
    chats,      \* the rows of public.chat_messages
    now,        \* the server's clock, what now() returns
    last,       \* the outcome of the last statement
    inserted,   \* history: every chat message an insert was accepted for
    steps,      \* history: the number of statements run (where a run is bounded)
    inflight,   \* the insert transactions that have not committed yet
    peak,       \* history: per (owner, memory), the most inserts in flight at once
    ui,         \* the state of the Chat component of the browser client
    requests    \* the API calls of the client that are not answered or not delivered yet

vars == <<memories, records, chats, now, last, inserted, steps, inflight, peak,
          ui, requests>>
store == <<memories, records, chats>>

(***************************************************************************)
(* Bounds of the model.                                                    *)
(***************************************************************************)
Users == {"u1", "u2"}
MemoryIds == {"m1", "m2"}
RecordIds == {"r1", "r2"}
\* Chat message ids of the access model (Spec).
MaxChatId == 1
\* Timestamps run from 0 to MaxTime.
MaxTime == 2
\* The transcript models start from a transcript of the messages
\* FirstBacklogId..LastBacklogId; the other ids up to MaxTranscriptId are free.
FirstBacklogId == 3
LastBacklogId == 12
MaxTranscriptId == 13
\* The statements of a bounded run (SpecChatOps).
MaxSteps == 2
\* The prune model (SpecPrune) starts from any subset of the rows 1..MaxPoolId.
MaxPoolId == 12

ChatIds == 1..MaxChatId
Times == 0..MaxTime

\* A column with no value.
NULL == "null"
\* A timestamp column left out of the statement: the column default applies.
DEFAULT == -1
\* offset 10 of prune_chat_messages: the rows kept per (user_id, memory_id).
KeepCount == 10
Roles == {"user", "assistant", "system"}

\* useState(...): the state of the Chat component when it mounts.
ChatState ==
    [memories |-> {}, selectedMemory |-> NULL, records |-> {}, messages |-> {},
     error |-> "", loading |-> FALSE]

\* No transaction is in flight, and none has been; no client has called.
AtRest ==
    /\ inflight = {}
    /\ peak = [pair \in Users \X MemoryIds |-> 0]
    /\ ui = ChatState
    /\ requests = {}

\* Statements sent to the database directly: they run one at a time, each in
\* its own transaction that commits before the next begins.
Serial == UNCHANGED <<inflight, peak, ui, requests>>

(***************************************************************************)
(* Column defaults and the trigger of memories.                            *)
(***************************************************************************)
\* created_at / updated_at timestamptz not null default now()
OrNow(t) == IF t = DEFAULT THEN now ELSE t

MemoryDefaults(row) == [row EXCEPT !.created_at = OrNow(row.created_at),
                                   !.updated_at = OrNow(row.updated_at)]

ChatDefaults(row) == [row EXCEPT !.created_at = OrNow(row.created_at)]

\* set_updated_at(), before update on memories for each row
set_updated_at(new) == [new EXCEPT !.updated_at = now]

(***************************************************************************)
(* Row level security.  uid is auth.uid() of the statement's caller.       *)
(***************************************************************************)
\* A select policy that lets every row through: for select using (true).
MemoriesSelectAny(uid, row) == TRUE
MemoriesSelectOwn(uid, row) == uid = row.user_id
MemoriesInsertOwn(uid, row) == uid = row.user_id
MemoriesUpdateOwnUsing(uid, row) == uid = row.user_id
MemoriesUpdateOwnCheck(uid, row) == uid = row.user_id
MemoriesDeleteOwn(uid, row) == uid = row.user_id

\* exists (select 1 from public.memories m
\*         where m.id = memory_id and m.user_id = auth.uid())
\* The subquery reads memories under the caller's own select policy.
OwnsMemory(uid, memory_id) ==
    \E m \in memories : /\ MemoriesSelectOwn(uid, m)
                        /\ m.id = memory_id
                        /\ m.user_id = uid

RecordsSelectByOwner(uid, row) == uid = row.user_id /\ OwnsMemory(uid, row.memory_id)
\* An insert policy that checks the owner column and not the parent memory.
RecordsInsertByUserOnly(uid, row) == uid = row.user_id
RecordsInsertByOwner(uid, row) == uid = row.user_id /\ OwnsMemory(uid, row.memory_id)
RecordsUpdateByOwnerUsing(uid, row) == uid = row.user_id /\ OwnsMemory(uid, row.memory_id)
\* An update policy whose with check leaves out the parent memory.
RecordsUpdateCheckUserOnly(uid, row) == uid = row.user_id
RecordsUpdateByOwnerCheck(uid, row) == uid = row.user_id /\ OwnsMemory(uid, row.memory_id)
RecordsDeleteByOwner(uid, row) == uid = row.user_id /\ OwnsMemory(uid, row.memory_id)

ChatSelectByOwner(uid, row) == uid = row.user_id /\ OwnsMemory(uid, row.memory_id)
ChatInsertByOwner(uid, row) == uid = row.user_id /\ OwnsMemory(uid, row.memory_id)
ChatUpdateByOwnerUsing(uid, row) == uid = row.user_id /\ OwnsMemory(uid, row.memory_id)
ChatUpdateByOwnerCheck(uid, row) == uid = row.user_id /\ OwnsMemory(uid, row.memory_id)
ChatDeleteByOwner(uid, row) == uid = row.user_id /\ OwnsMemory(uid, row.memory_id)

(***************************************************************************)
(* select: the rows a caller's select returns.                             *)
(***************************************************************************)
SelectMemories(uid) == {m \in memories : MemoriesSelectOwn(uid, m)}
SelectRecords(uid) == {r \in records : RecordsSelectByOwner(uid, r)}
SelectChats(uid) == {c \in chats : ChatSelectByOwner(uid, c)}

(***************************************************************************)
(* The outcome of a statement: what was run, by whom, on which id, how it   *)
(* ended ("ok", "notfound": no row matched, or the error), and also: the   *)
(* number of further rows it removed (by cascade, or by the prune).        *)
(***************************************************************************)
Outcome(op, uid, id, status, also) ==
    [op |-> op, uid |-> uid, id |-> id, status |-> status, also |-> also]

(***************************************************************************)
(* public.memories                                                         *)
(*                                                                         *)
(* How PostgreSQL runs a statement under row level security:               *)
(*  - insert: the with check of the insert policy is tested on the new row,*)
(*    then the table's constraints, then the primary key, then the foreign *)
(*    keys; the first failure is an error and nothing is written;          *)
(*  - update, delete ... where id = x: the statement sees the rows the     *)
(*    select policy and its own using clause let through and matches none  *)
(*    of the others, which is no error ("notfound"); an update then tests  *)
(*    its with check and the constraints on the new row;                   *)
(*  - the actions of a foreign key (on delete cascade) are not subject to  *)
(*    the policies.                                                        *)
(***************************************************************************)
MemoryChecks(row) == row.title # NULL

\* How an insert of row into memories ends when the table holds the rows of
\* table: the primary key is checked against every row, whoever owns it.
MemoryInsertStatus(uid, row, table) ==
    IF ~MemoriesInsertOwn(uid, row) THEN "denied"
    ELSE IF ~MemoryChecks(row) THEN "invalid"
    ELSE IF \E m \in table : m.id = row.id THEN "conflict"
    ELSE "ok"

\* insert into public.memories
InsertMemory(uid, payload) ==
    LET row == MemoryDefaults(payload)
        status == MemoryInsertStatus(uid, row, memories)
    IN  /\ memories' = IF status = "ok" THEN memories \cup {row} ELSE memories
        /\ last' = Outcome("insert_memory", uid, row.id, status, 0)
        /\ UNCHANGED <<records, chats, now>>

\* The rows of other tables that reference memories(id).
Dependents(id) == {r \in records : r.memory_id = id} \cup {c \in chats : c.memory_id = id}

\* update public.memories set ... where id = id; a timestamp column set to
\* default takes now(), and the trigger then overwrites updated_at.
UpdateMemory(uid, id, payload) ==
    LET hit == {m \in memories : /\ m.id = id
                                 /\ MemoriesSelectOwn(uid, m)
                                 /\ MemoriesUpdateOwnUsing(uid, m)}
        new == set_updated_at(MemoryDefaults(payload))
        status == IF hit = {} THEN "notfound"
                  ELSE IF ~MemoriesUpdateOwnCheck(uid, new) THEN "denied"
                  ELSE IF ~MemoryChecks(new) THEN "invalid"
                  ELSE IF new.id # id /\ \E m \in memories : m.id = new.id THEN "conflict"
                  ELSE IF new.id # id /\ Dependents(id) # {} THEN "restricted"
                  ELSE "ok"
    IN  /\ memories' = IF status = "ok" THEN (memories \ hit) \cup {new} ELSE memories
        /\ last' = Outcome("update_memory", uid, id, status, 0)
        /\ UNCHANGED <<records, chats, now>>

\* references public.memories(id) on delete cascade
CascadeRecords(gone) == {r \in records : r.memory_id \notin gone}
\* chat_messages.memory_id without its references clause: nothing cascades.
CascadeChatsNone(gone) == chats
CascadeChats(gone) == {c \in chats : c.memory_id \notin gone}

\* delete from public.memories where id = id
DeleteMemory(uid, id) ==
    LET hit == {m \in memories : /\ m.id = id
                                 /\ MemoriesSelectOwn(uid, m)
                                 /\ MemoriesDeleteOwn(uid, m)}
        gone == {m.id : m \in hit}
    IN  /\ memories' = memories \ hit
        /\ records' = CascadeRecords(gone)
        /\ chats' = CascadeChats(gone)
        /\ last' = Outcome("delete_memory", uid, id, IF hit = {} THEN "notfound" ELSE "ok",
                            Cardinality(records \ CascadeRecords(gone))
                              + Cardinality(chats \ CascadeChats(gone)))
        /\ UNCHANGED now

(***************************************************************************)
(* public.memory_records                                                   *)
(***************************************************************************)
RecordChecks(row) == row.content # NULL

\* insert into public.memory_records
InsertRecord(uid, row) ==
    LET status == IF ~RecordsInsertByOwner(uid, row) THEN "denied"
                  ELSE IF ~RecordChecks(row) THEN "invalid"
                  ELSE IF \E r \in records : r.id = row.id THEN "conflict"
                  ELSE IF ~\E m \in memories : m.id = row.memory_id THEN "restricted"
                  ELSE "ok"
    IN  /\ records' = IF status = "ok" THEN records \cup {row} ELSE records
        /\ last' = Outcome("insert_record", uid, row.id, status, 0)
        /\ UNCHANGED <<memories, chats, now>>

\* update public.memory_records set ... where id = id
UpdateRecord(uid, id, new) ==
    LET hit == {r \in records : /\ r.id = id
                                /\ RecordsSelectByOwner(uid, r)
                                /\ RecordsUpdateByOwnerUsing(uid, r)}
        status == IF hit = {} THEN "notfound"
                  ELSE IF ~RecordsUpdateByOwnerCheck(uid, new) THEN "denied"
                  ELSE IF ~RecordChecks(new) THEN "invalid"
                  ELSE IF new.id # id /\ \E r \in records : r.id = new.id THEN "conflict"
                  ELSE IF ~\E m \in memories : m.id = new.memory_id THEN "restricted"
                  ELSE "ok"
    IN  /\ records' = IF status = "ok" THEN (records \ hit) \cup {new} ELSE records
        /\ last' = Outcome("update_record", uid, id, status, 0)
        /\ UNCHANGED <<memories, chats, now>>

\* delete from public.memory_records where id = id
DeleteRecord(uid, id) ==
    LET hit == {r \in records : /\ r.id = id
                                /\ RecordsSelectByOwner(uid, r)
                                /\ RecordsDeleteByOwner(uid, r)}
    IN  /\ records' = records \ hit
        /\ last' = Outcome("delete_record", uid, id, IF hit = {} THEN "notfound" ELSE "ok", 0)
        /\ UNCHANGED <<memories, chats, now>>

(***************************************************************************)
(* public.chat_messages                                                    *)
(***************************************************************************)
\* role text not null, without its check (role in (...)).
ChatChecksAnyRole(row) == row.role # NULL /\ row.content # NULL
ChatChecks(row) == row.role \in Roles /\ row.content # NULL

\* The tie on created_at broken the other way: order by created_at desc, id asc.
BeforeIdAscending(a, b) ==
    \/ a.created_at > b.created_at
    \/ a.created_at = b.created_at /\ a.id < b.id

\* order by created_at desc, id desc: a comes before b.
Before(a, b) ==
    \/ a.created_at > b.created_at
    \/ a.created_at = b.created_at /\ a.id > b.id

\* The subquery without memory_id = NEW.memory_id: the window is per user.
PruneOldAnyMemory(uid, table, new) ==
    LET mine == {c \in table : /\ ChatSelectByOwner(uid, c)
                               /\ c.user_id = new.user_id}
    IN  {c \in mine : Cardinality({d \in mine : Before(d, c)}) >= KeepCount}

\* The subquery with offset 9: one row too many is deleted.
PruneOldOffsetNine(uid, table, new) ==
    LET mine == {c \in table : /\ ChatSelectByOwner(uid, c)
                               /\ c.user_id = new.user_id
                               /\ c.memory_id = new.memory_id}
    IN  {c \in mine : Cardinality({d \in mine : Before(d, c)}) >= KeepCount - 1}

\* select id from public.chat_messages
\* where user_id = NEW.user_id and memory_id = NEW.memory_id
\* order by created_at desc, id desc offset 10
\* The function runs with the caller's rights: it reads table under the
\* caller's select policy.
PruneOld(uid, table, new) ==
    LET mine == {c \in table : /\ ChatSelectByOwner(uid, c)
                               /\ c.user_id = new.user_id
                               /\ c.memory_id = new.memory_id}
    IN  {c \in mine : Cardinality({d \in mine : Before(d, c)}) >= KeepCount}

\* prune_chat_messages(): delete from public.chat_messages c using (...) old
\* where c.id = old.id, on table, which holds the row NEW already.
prune_chat_messages(uid, table, new) ==
    LET old == {c.id : c \in PruneOld(uid, table, new)}
    IN  {c \in table : ~(/\ c.id \in old
                         /\ ChatSelectByOwner(uid, c)
                         /\ ChatDeleteByOwner(uid, c))}

\* The trigger function with an exception handler that swallows the error
\* (exception when others then return null): the insert stands, unpruned.
trg_prune_swallows_error(table, pruned, raised) ==
    IF raised THEN [status |-> "ok", rows |-> table]
              ELSE [status |-> "ok", rows |-> pruned]

\* trg_prune_chat_messages, after insert for each row: the trigger runs inside
\* the insert statement.  raised: the delete of the trigger function raised an
\* error; the function has no exception handler, so the error ends the
\* statement and undoes the insert.  table holds the new row, pruned is what
\* the trigger's delete leaves.
trg_prune_chat_messages(table, pruned, raised) ==
    IF raised THEN [status |-> "error", rows |-> chats]
              ELSE [status |-> "ok", rows |-> pruned]

\* prune_chat_messages() run once more for a row NEW that is in the table.
Retrigger(uid, new) ==
    /\ chats' = prune_chat_messages(uid, chats, new)
    /\ last' = Outcome("prune", uid, new.memory_id, "ok",
                        Cardinality(chats \ prune_chat_messages(uid, chats, new)))
    /\ UNCHANGED <<memories, records, now>>

\* insert into public.chat_messages
InsertChat(uid, payload, raised) ==
    LET row == ChatDefaults(payload)
        status == IF ~ChatInsertByOwner(uid, row) THEN "denied"
                  ELSE IF ~ChatChecks(row) THEN "invalid"
                  ELSE IF \E c \in chats : c.id = row.id THEN "conflict"
                  ELSE IF ~\E m \in memories : m.id = row.memory_id THEN "restricted"
                  ELSE "ok"
        table == chats \cup {row}
        done == trg_prune_chat_messages(table, prune_chat_messages(uid, table, row), raised)
    IN  /\ chats' = IF status = "ok" THEN done.rows ELSE chats
        /\ last' = Outcome("insert_chat", uid, row.id,
                            IF status = "ok" THEN done.status ELSE status,
                            IF status = "ok" /\ done.status = "ok"
                               THEN Cardinality(table \ done.rows) ELSE 0)
        /\ UNCHANGED <<memories, records, now>>

\* update public.chat_messages set ... where id = id (no trigger fires)
UpdateChat(uid, id, new) ==
    LET hit == {c \in chats : /\ c.id = id
                              /\ ChatSelectByOwner(uid, c)
                              /\ ChatUpdateByOwnerUsing(uid, c)}
        status == IF hit = {} THEN "notfound"
                  ELSE IF ~ChatUpdateByOwnerCheck(uid, new) THEN "denied"
                  ELSE IF ~ChatChecks(new) THEN "invalid"
                  ELSE IF new.id # id /\ \E c \in chats : c.id = new.id THEN "conflict"
                  ELSE IF ~\E m \in memories : m.id = new.memory_id THEN "restricted"
                  ELSE "ok"
    IN  /\ chats' = IF status = "ok" THEN (chats \ hit) \cup {new} ELSE chats
        /\ last' = Outcome("update_chat", uid, id, status, 0)
        /\ UNCHANGED <<memories, records, now>>

\* delete from public.chat_messages where id = id
DeleteChat(uid, id) ==
    LET hit == {c \in chats : /\ c.id = id
                              /\ ChatSelectByOwner(uid, c)
                              /\ ChatDeleteByOwner(uid, c)}
    IN  /\ chats' = chats \ hit
        /\ last' = Outcome("delete_chat", uid, id, IF hit = {} THEN "notfound" ELSE "ok", 0)
        /\ UNCHANGED <<memories, records, now>>

\* The server's clock moves on.
Tick ==
    /\ now < MaxTime
    /\ now' = now + 1
    /\ UNCHANGED <<memories, records, chats, last>>

(***************************************************************************)
(* The state after the schema is installed: empty tables.                  *)
(***************************************************************************)
NoOutcome == Outcome("none", "none", "none", "none", 0)

Init ==
    /\ memories = {}
    /\ records = {}
    /\ chats = {}
    /\ now = 0
    /\ last = NoOutcome
    /\ inserted = {}
    /\ steps = 0
    /\ AtRest

MemoryPayloads == [id : MemoryIds, user_id : Users, title : {"t"},
                   created_at : {DEFAULT}, updated_at : {DEFAULT}]

RecordRows == [id : RecordIds, memory_id : MemoryIds, user_id : Users, content : {"c"}]

ChatPayloads == [id : ChatIds, user_id : Users, memory_id : MemoryIds,
                 role : {"user"}, content : {"c"}, created_at : {DEFAULT}]

ChatRows == [id : ChatIds, user_id : Users, memory_id : MemoryIds,
             role : {"user"}, content : {"c"}, created_at : {0}]

\* The history variables stay as they are.
Quiet == UNCHANGED <<inserted, steps>> /\ Serial

Next ==
    \/ \E uid \in Users, p \in MemoryPayloads : InsertMemory(uid, p) /\ Quiet
    \/ \E uid \in Users, id \in MemoryIds, p \in MemoryPayloads :
          UpdateMemory(uid, id, p) /\ Quiet
    \/ \E uid \in Users, id \in MemoryIds : DeleteMemory(uid, id) /\ Quiet
    \/ \E uid \in Users, r \in RecordRows : InsertRecord(uid, r) /\ Quiet
    \/ \E uid \in Users, id \in RecordIds, r \in RecordRows :
          UpdateRecord(uid, id, r) /\ Quiet
    \/ \E uid \in Users, id \in RecordIds : DeleteRecord(uid, id) /\ Quiet
    \/ \E uid \in Users, p \in ChatPayloads, raised \in BOOLEAN :
          InsertChat(uid, p, raised) /\ Quiet
    \/ \E uid \in Users, id \in ChatIds, c \in ChatRows :
          UpdateChat(uid, id, c) /\ Quiet
    \/ \E uid \in Users, id \in ChatIds : DeleteChat(uid, id) /\ Quiet

Spec == Init /\ [][Next]_vars

(***************************************************************************)
(* The transcript models.  They start where u1 owns both memories and the  *)
(* transcript of (u1, m1) holds the messages FirstBacklogId..LastBacklogId,*)
(* each inserted at time 1: no more than KeepCount rows, so that no prune  *)
(* has deleted anything yet.                                               *)
(***************************************************************************)
BacklogIds == FirstBacklogId..LastBacklogId
FreeIds == (1..MaxTranscriptId) \ BacklogIds

Message(id, memory_id, created_at) ==
    [id |-> id, user_id |-> "u1", memory_id |-> memory_id,
     role |-> "user", content |-> "c", created_at |-> created_at]

InitBacklog ==
    /\ memories = {[id |-> m, user_id |-> "u1", title |-> "t",
                    created_at |-> 0, updated_at |-> 0] : m \in MemoryIds}
    /\ records = {}
    /\ chats = {Message(i, "m1", 1) : i \in BacklogIds}
    /\ now = 1
    /\ last = Outcome("insert_chat", "u1", LastBacklogId, "ok", 0)
    /\ inserted = chats
    /\ steps = 0
    /\ AtRest

TranscriptPayloads == [id : FreeIds, user_id : Users, memory_id : MemoryIds,
                       role : {"user"}, content : {"c"}, created_at : Times]

\* The history of accepted inserts, after an insert of payload p.
Logged(p) ==
    inserted' = IF last'.status = "ok" THEN inserted \cup {ChatDefaults(p)} ELSE inserted

\* Inserts only, each with an id no message had before (gen_random_uuid()).
NextInserts ==
    \E uid \in Users, p \in TranscriptPayloads, raised \in BOOLEAN :
        /\ ~\E c \in inserted : c.id = p.id
        /\ InsertChat(uid, p, raised)
        /\ Logged(p)
        /\ UNCHANGED steps
        /\ Serial

SpecInserts == InitBacklog /\ [][NextInserts]_vars

\* A statement of a bounded run.
Step == steps < MaxSteps /\ steps' = steps + 1 /\ Serial

\* update ... set <one column> = <value>: the rows an update may turn c into.
ChatPatches(c) ==
    {[c EXCEPT !.memory_id = m] : m \in MemoryIds}
      \cup {[c EXCEPT !.created_at = t] : t \in Times}
      \cup {[c EXCEPT !.user_id = u] : u \in Users}

\* At most MaxSteps statements on chat_messages and memories.
NextChatOps ==
    \/ \E uid \in Users, p \in TranscriptPayloads :
          InsertChat(uid, p, FALSE) /\ Logged(p) /\ Step
    \/ \E uid \in Users, c \in chats :
          \E new \in ChatPatches(c) :
              UpdateChat(uid, c.id, new) /\ UNCHANGED inserted /\ Step
    \/ \E uid \in Users, id \in 1..MaxTranscriptId :
          DeleteChat(uid, id) /\ UNCHANGED inserted /\ Step
    \/ \E uid \in Users, p \in MemoryPayloads :
          InsertMemory(uid, p) /\ UNCHANGED inserted /\ Step
    \/ \E uid \in Users, id \in MemoryIds, p \in MemoryPayloads :
          UpdateMemory(uid, id, p) /\ UNCHANGED inserted /\ Step
    \/ \E uid \in Users, id \in MemoryIds :
          DeleteMemory(uid, id) /\ UNCHANGED inserted /\ Step

SpecChatOps == InitBacklog /\ [][NextChatOps]_vars

(***************************************************************************)
(* The prune model: prune_chat_messages() as a function of the table.  It  *)
(* starts from any subset of the rows 1..MaxPoolId of u1, every seventh of *)
(* them in m2 and the others in m1, with created_at running through 0..    *)
(* MaxTime; a pair may hold more than KeepCount of them.                   *)
(***************************************************************************)
PoolRow(i) == Message(i, IF i % 7 = 0 THEN "m2" ELSE "m1", i % (MaxTime + 1))

InitPrune ==
    /\ memories = {[id |-> m, user_id |-> "u1", title |-> "t",
                    created_at |-> 0, updated_at |-> 0] : m \in MemoryIds}
    /\ records = {}
    /\ chats \in {{PoolRow(i) : i \in ids} : ids \in SUBSET (1..MaxPoolId)}
    /\ now = MaxTime
    /\ last = NoOutcome
    /\ inserted = chats
    /\ steps = 0
    /\ AtRest

NextPrune == \E uid \in Users, new \in chats : Retrigger(uid, new) /\ Quiet

SpecPrune == InitPrune /\ [][NextPrune]_vars

(***************************************************************************)
(* The timestamp model: the statements on memories of one user, with the   *)
(* timestamps a statement may carry and the clock moving.                  *)
(***************************************************************************)
TimedMemoryPayloads == [id : MemoryIds, user_id : {"u1"}, title : {"t"},
                        created_at : Times \cup {DEFAULT},
                        updated_at : Times \cup {DEFAULT}]

\* An update's row holds a value in every column.
TimedMemoryRows == [id : MemoryIds, user_id : {"u1"}, title : {"t"},
                    created_at : Times, updated_at : Times]

NextTime ==
    \/ \E p \in TimedMemoryPayloads : InsertMemory("u1", p) /\ Quiet
    \/ \E id \in MemoryIds, p \in TimedMemoryRows : UpdateMemory("u1", id, p) /\ Quiet
    \/ \E id \in MemoryIds : DeleteMemory("u1", id) /\ Quiet
    \/ Tick /\ Quiet

SpecTime == Init /\ [][NextTime]_vars

(***************************************************************************)
(* Properties of the access policies (under Spec).                         *)
(***************************************************************************)
OwnedByOther(table, id, uid) == \E r \in table : r.id = id /\ r.user_id # uid

\* C1, reads: whatever a caller's select returns is a row of the caller.
SelectsOwnOnly ==
    \A uid \in Users :
        \A row \in SelectMemories(uid) \cup SelectRecords(uid) \cup SelectChats(uid) :
            row.user_id = uid

\* C1, writes: an update or a delete aimed at a row of another user matches no
\* row and leaves all three tables as they were.
ForeignWriteIsNoop ==
    /\ last'.op \in {"update_memory", "delete_memory"} /\ OwnedByOther(memories, last'.id, last'.uid)
          => store' = store /\ last'.status = "notfound"
    /\ last'.op \in {"update_record", "delete_record"} /\ OwnedByOther(records, last'.id, last'.uid)
          => store' = store /\ last'.status = "notfound"
    /\ last'.op \in {"update_chat", "delete_chat"} /\ OwnedByOther(chats, last'.id, last'.uid)
          => store' = store /\ last'.status = "notfound"

\* C1: for every Memory, Record and ChatMessage of user U and every caller C
\* other than U, no select of C returns the row, and an update or delete of C
\* aimed at it changes nothing.
C1_Isolation == []SelectsOwnOnly /\ [][ForeignWriteIsNoop]_vars

\* C1 witness: a caller aimed an update at a memory that exists and belongs to
\* another user, who also has a record and a chat message.
C1_Witness ==
    /\ last.op = "update_memory"
    /\ OwnedByOther(memories, last.id, last.uid)
    /\ \E r \in records : r.user_id # last.uid
    /\ \E c \in chats : c.user_id # last.uid

\* The proposed row's owner is the caller and its parent is a memory of the caller.
Paired(uid, row) ==
    /\ row.user_id = uid
    /\ \E m \in memories : m.id = row.memory_id /\ m.user_id = uid

InsertIsPaired ==
    /\ \A uid \in Users, r \in RecordRows :
          last'.op = "insert_record" /\ InsertRecord(uid, r) =>
              /\ last'.status = "ok" => Paired(uid, r) /\ records' = records \cup {r}
              /\ ~Paired(uid, r) => last'.status = "denied" /\ store' = store
    /\ \A uid \in Users, p \in ChatPayloads, raised \in BOOLEAN :
          last'.op = "insert_chat" /\ InsertChat(uid, p, raised) =>
              /\ last'.status = "ok" => Paired(uid, p)
              /\ ~Paired(uid, p) => last'.status = "denied" /\ store' = store

\* C2: an insert of a Record or ChatMessage is accepted only if the proposed
\* owner is the caller and the parent Memory exists and is the caller's; any
\* other insert is rejected and writes nothing.
C2_InsertRequiresOwnParent == [][InsertIsPaired]_vars

\* C2 witness: an insert of a record was denied although its id was free and
\* a memory of another user (a possible mismatched parent) exists.
C2_Witness ==
    /\ last.op = "insert_record"
    /\ last.status = "denied"
    /\ ~\E r \in records : r.id = last.id
    /\ \E m \in memories : m.user_id # last.uid
    /\ \E m \in memories : m.user_id = last.uid

\* Every record and chat message references a memory that exists.
NoDangling ==
    \A r \in records \cup chats : \E m \in memories : m.id = r.memory_id

CascadeIsWhole ==
    last'.op = "delete_memory" /\ last'.status = "ok" =>
        /\ ~\E m \in memories' : m.id = last'.id
        /\ ~\E r \in records' \cup chats' : r.memory_id = last'.id
        /\ records' = {r \in records : r.memory_id # last'.id}
        /\ chats' = {c \in chats : c.memory_id # last'.id}

\* C4: deleting a Memory removes, in the same step, every Record and
\* ChatMessage whose parent it is, and in every reachable state every Record
\* and ChatMessage references a Memory that exists.
C4_CascadeAndIntegrity == []NoDangling /\ [][CascadeIsWhole]_vars

\* C4 witness: a memory was deleted and two of its dependents went with it,
\* while rows of the other memory remain.
C4_Witness ==
    /\ last.op = "delete_memory"
    /\ last.status = "ok"
    /\ last.also >= 2
    /\ records # {}

\* C5: the owner of every Record and ChatMessage is the owner of its parent Memory.
C5_OwnerChain ==
    \A r \in records \cup chats :
        \E m \in memories : m.id = r.memory_id /\ m.user_id = r.user_id

\* C5 witness: both users own a memory with a record, and an update of a
\* record has just been accepted.
C5_Witness ==
    /\ last.op = "update_record"
    /\ last.status = "ok"
    /\ \A uid \in Users : \E r \in records : r.user_id = uid
    /\ chats # {}
(***************************************************************************)
(* Properties of the retention trigger (under SpecInserts).                *)
(***************************************************************************)
Pairs == Users \X MemoryIds
Of(table, pair) == {c \in table : c.user_id = pair[1] /\ c.memory_id = pair[2]}

\* d is more recent than c: later created_at, and the greater id on a tie.
MoreRecent(d, c) ==
    \/ d.created_at > c.created_at
    \/ d.created_at = c.created_at /\ d.id > c.id

\* The n most recent rows of a set.
MostRecent(n, rows) == {c \in rows : Cardinality({d \in rows : MoreRecent(d, c)}) < n}

\* C3: after any sequence of inserts, each (owner, memory) pair holds at most
\* 10 messages, and they are exactly the 10 most recent, by created_at and
\* then id, of all messages ever inserted for the pair.
C3_KeepsTenMostRecent ==
    \A pair \in Pairs :
        /\ Cardinality(Of(chats, pair)) <= 10
        /\ Of(chats, pair) = MostRecent(10, Of(inserted, pair))

\* C3 witness: at least 12 messages were inserted for a pair, the last insert
\* pruned a row, and backlog rows as well as later rows are among the pruned.
C3_Witness ==
    /\ Cardinality(Of(inserted, <<"u1", "m1">>)) >= 12
    /\ last.op = "insert_chat" /\ last.status = "ok" /\ last.also = 1
    /\ \E c \in inserted \ chats : c.id \in BacklogIds
    /\ \E c \in inserted \ chats : c.id \in FreeIds
\* No pair holds more than 10 messages.
AtMostTen == \A pair \in Pairs : Cardinality(Of(chats, pair)) <= 10

\* The insert of payload p by uid passes every check made before the row is
\* written: the policy, the constraints, the primary key.
Acceptable(uid, p) ==
    /\ Paired(uid, p)
    /\ p.role \in {"user", "assistant", "system"}
    /\ ~\E c \in chats : c.id = p.id

FailedPruneKeepsInsert ==
    \A uid \in Users, p \in TranscriptPayloads :
        /\ last'.op = "insert_chat" /\ last'.uid = uid /\ last'.id = p.id
        /\ Acceptable(uid, p)
        /\ InsertChat(uid, p, TRUE)
        =>
            /\ last'.status = "ok"
            /\ p \in chats'

FailedPruneUndoesInsert ==
    \A uid \in Users, p \in TranscriptPayloads :
        /\ last'.op = "insert_chat" /\ last'.uid = uid /\ last'.id = p.id
        /\ Acceptable(uid, p)
        /\ InsertChat(uid, p, TRUE)
        =>
            /\ last'.status = "error"
            /\ store' = store

C8_AtMostTenAtRest ==
    \A uid \in Users, m \in MemoryIds :
        Cardinality({c \in chats : c.user_id = uid /\ c.memory_id = m}) <= 10

PruneIsIdempotent ==
    \A uid \in Users, new \in chats :
        last'.op = "prune" /\ last'.uid = uid /\ last'.id = new.memory_id
                           /\ Retrigger(uid, new) =>
            /\ Cardinality(Of(chats, <<new.user_id, new.memory_id>>)) <= 10 => chats' = chats
            /\ prune_chat_messages(uid, chats', new) = chats'
            /\ chats' \subseteq chats

\* C9: the prune run for a pair that holds 10 messages or fewer deletes
\* nothing, and a second run right after a first deletes nothing more.
C9_PruneIdempotent == [][PruneIsIdempotent]_vars

\* C9 witness: a prune ran on a pair that held more than 10 messages and left 10.
C9_Witness ==
    /\ last.op = "prune"
    /\ last.also >= 1
    /\ Cardinality(Of(chats, <<last.uid, last.id>>)) = 10

(***************************************************************************)
(* Properties of the timestamps of memories (under SpecTime).              *)
(***************************************************************************)
UpdateAdvances ==
    last'.op = "update_memory" /\ last'.status = "ok" =>
        \A old \in memories, new \in memories' :
            old.id = last'.id /\ new \notin memories \ {old} =>
                /\ new.updated_at = now
                /\ new.updated_at >= old.updated_at

\* C6: every update of a memory sets updated_at to the server's time, and the
\* new updated_at is no earlier than the previous one.
C6_UpdateAdvances == [][UpdateAdvances]_vars

\* C10: every memory has updated_at >= created_at.
C10_UpdatedNotBeforeCreated == \A m \in memories : m.updated_at >= m.created_at

(***************************************************************************)
(* Properties of the update policies (under Spec).                         *)
(***************************************************************************)
\* The rows of a table keep the owner they have, id by id.
KeepsOwner(before, after) ==
    \A old \in before, new \in after : new.id = old.id => new.user_id = old.user_id

\* The rows of a table keep the parent memory they have, id by id.
KeepsParent(before, after) ==
    \A old \in before, new \in after : new.id = old.id => new.memory_id = old.memory_id

OwnerAndParentFixed ==
    /\ KeepsOwner(memories, memories')
    /\ KeepsOwner(records, records') /\ KeepsParent(records, records')
    /\ KeepsOwner(chats, chats') /\ KeepsParent(chats, chats')

\* C11: no statement of a caller changes the owner of an existing Memory,
\* Record or ChatMessage, or the parent memory id of an existing Record or
\* ChatMessage.
C11_OwnerAndParentFixed == [][OwnerAndParentFixed]_vars

(***************************************************************************)
(* The title model: the statements on memories with the titles a caller    *)
(* may send: none (null), the empty string, or a text.                     *)
(***************************************************************************)
Titles == {NULL, "", "t"}

TitledPayloads == [id : MemoryIds, user_id : Users, title : Titles,
                   created_at : {DEFAULT}, updated_at : {DEFAULT}]

NextTitles ==
    \/ \E uid \in Users, p \in TitledPayloads : InsertMemory(uid, p) /\ Quiet
    \/ \E uid \in Users, id \in MemoryIds, p \in TitledPayloads :
          UpdateMemory(uid, id, p) /\ Quiet
    \/ \E uid \in Users, id \in MemoryIds : DeleteMemory(uid, id) /\ Quiet

SpecTitles == Init /\ [][NextTitles]_vars

\* Every memory has a title, and it is not the empty string.
TitlesNonEmpty == \A m \in memories : m.title # NULL /\ m.title # ""

BlankTitleRejected ==
    /\ \A uid \in Users, p \in TitledPayloads :
          last'.op = "insert_memory" /\ InsertMemory(uid, p) /\ p.title \in {NULL, ""} =>
              last'.status # "ok" /\ store' = store
    /\ \A uid \in Users, id \in MemoryIds, p \in TitledPayloads :
          last'.op = "update_memory" /\ UpdateMemory(uid, id, p) /\ p.title \in {NULL, ""} =>
              last'.status # "ok" /\ store' = store

\* C12: an insert or update of a Memory whose title is missing or empty is
\* rejected and writes nothing, so every Memory has a non-empty title in
\* every reachable state.
C12_TitleNonEmpty == []TitlesNonEmpty /\ [][BlankTitleRejected]_vars

(***************************************************************************)
(* The concurrent model: inserts into chat_messages that overlap, each in  *)
(* a transaction of its own under read committed.  A transaction's row and *)
(* the deletes of its trigger are invisible to the others until it         *)
(* commits; the delete of the trigger reads the committed rows and the     *)
(* transaction's own row.  It starts from the transcript of InitBacklog.   *)
(***************************************************************************)
\* The transactions in flight at once.
MaxInFlight == 2

ConcurrentPayloads == [id : FreeIds, user_id : Users, memory_id : MemoryIds,
                       role : {"user"}, content : {"c"},
                       created_at : {DEFAULT, MaxTime}]

PairOf(row) == <<row.user_id, row.memory_id>>

\* The checks of an insert into chat_messages, in the order PostgreSQL makes them.
ChatInsertStatus(uid, row) ==
    IF ~ChatInsertByOwner(uid, row) THEN "denied"
    ELSE IF ~ChatChecks(row) THEN "invalid"
    ELSE IF \E c \in chats : c.id = row.id THEN "conflict"
    ELSE IF ~\E m \in memories : m.id = row.memory_id THEN "restricted"
    ELSE "ok"

\* The trigger firing before the insert: its delete does not see the new row.
SnapshotBeforeInsert(row) == chats
\* What the delete of the trigger reads in the transaction that inserted row:
\* the committed rows and, the trigger being an after insert trigger, row.
Snapshot(row) == chats \cup {row}

Max(a, b) == IF a > b THEN a ELSE b

\* The insert statement of a transaction, trigger included, up to its end:
\* row is written and the rows the trigger deletes are marked, all of it
\* uncommitted.  A statement that fails a check ends with the error at once.
BeginInsert(uid, payload) ==
    LET row == ChatDefaults(payload)
        status == ChatInsertStatus(uid, row)
        dels == Snapshot(row) \ prune_chat_messages(uid, Snapshot(row), row)
        rivals == {t \in inflight : PairOf(t.row) = PairOf(row)}
        txn == [seq |-> steps, uid |-> uid, row |-> row, dels |-> dels,
                solo |-> rivals = {}]
    IN  /\ Cardinality(inflight) < MaxInFlight
        /\ ~\E c \in inserted \cup {t.row : t \in inflight} : c.id = row.id
        /\ IF status = "ok"
              THEN /\ inflight' = {[t EXCEPT !.solo = @ /\ t \notin rivals] : t \in inflight}
                                    \cup {txn}
                   /\ peak' = [peak EXCEPT ![PairOf(row)] = Max(@, Cardinality(rivals) + 1)]
                   /\ steps' = steps + 1
                   /\ last' = Outcome("begin", uid, row.id, "ok", 0)
              ELSE /\ last' = Outcome("insert_chat", uid, row.id, status, 0)
                   /\ UNCHANGED <<inflight, peak, steps>>
        /\ UNCHANGED <<memories, records, chats, now, inserted, ui, requests>>

\* commit.  A delete of a row that an earlier transaction has deleted waits
\* for that transaction to end, so the earlier one commits first; the row is
\* gone then and the delete skips it.
CommitInsert(t) ==
    /\ t \in inflight
    /\ \A o \in inflight : o.seq < t.seq => o.dels \cap t.dels = {}
    /\ chats' = (chats \ t.dels) \cup ({t.row} \ t.dels)
    /\ inflight' = inflight \ {t}
    /\ inserted' = inserted \cup {t.row}
    /\ last' = Outcome("insert_chat", t.uid, t.row.id, "ok",
                        Cardinality(t.dels \cap (chats \cup {t.row})))
    /\ UNCHANGED <<memories, records, now, steps, peak, ui, requests>>

NextConcurrent ==
    \/ \E uid \in Users, p \in ConcurrentPayloads : BeginInsert(uid, p)
    \/ \E t \in inflight : CommitInsert(t)

SpecConcurrent == InitBacklog /\ [][NextConcurrent]_vars

\* With every insert committed, a pair holds no more than 10 rows and one per
\* insert that was in flight at once.
OvershootBounded ==
    inflight = {} =>
        \A pair \in Users \X MemoryIds :
            Cardinality({c \in chats : PairOf(c) = pair}) <= 10 + peak[pair]

\* An insert that ran with no other insert of its pair in flight leaves the
\* pair with at most 10 rows.
SoloInsertRestores ==
    \A t \in inflight :
        last'.op = "insert_chat" /\ CommitInsert(t) /\ t.solo =>
            Cardinality({c \in chats' : PairOf(c) = PairOf(t.row)}) <= 10

\* C13: when k inserts for one (owner, memory) pair run concurrently, each
\* pruning against a snapshot without the others' uncommitted rows, the pair
\* holds at most 10 + k rows once all have committed; one further insert for
\* the pair that runs with no other in flight leaves at most 10 rows.
C13_OvershootSelfCorrects == []OvershootBounded /\ [][SoloInsertRestores]_vars

\* C13 witness: two inserts of (u1, m1) were in flight at once and left 11
\* rows, and an insert that ran alone has just committed, removed two rows
\* and left 10.
C13_Witness ==
    /\ inflight = {}
    /\ peak[<<"u1", "m1">>] = 2
    /\ last.op = "insert_chat" /\ last.status = "ok" /\ last.also = 2
    /\ Cardinality({c \in chats : PairOf(c) = <<"u1", "m1">>}) = 10

(***************************************************************************)
(* The frame of the prune (under SpecInserts).                             *)
(***************************************************************************)
\* inserted' \ inserted holds the row of an insert that was accepted, whether
\* the prune left it in the table or not.
PruneStaysInPair ==
    last'.op = "insert_chat" =>
        /\ \A new \in inserted' \ inserted :
              /\ \A c \in chats \ chats' : PairOf(c) = PairOf(new)
              /\ \A c \in chats : PairOf(c) # PairOf(new) => c \in chats'
        /\ inserted' = inserted => chats' = chats
        /\ records' = records
        /\ memories' = memories

\* C14: the prune fired by an insert for (owner u, memory m) deletes only
\* chat messages of u in m; the chat messages of every other pair, the
\* records and the memories stay as they are.
C14_PruneStaysInPair == [][PruneStaysInPair]_vars

\* C14 witness: an insert has just pruned a message of its pair while the
\* other memory of the same user holds messages too.
C14_Witness ==
    /\ last.op = "insert_chat" /\ last.status = "ok" /\ last.also = 1
    /\ \E c \in chats : c.id = last.id /\ c.memory_id = "m1"
    /\ \E c \in chats : c.memory_id = "m2"
    /\ \E c \in inserted \ chats : c.memory_id = "m1"

(***************************************************************************)
(* What a caller can tell about rows of others (under Spec).               *)
(***************************************************************************)
\* The table without the rows of users other than uid.
WithoutOthers(table, uid) == {m \in table : m.user_id = uid}

\* A statement of a caller on the id of a memory of another user ends as it
\* would if the table held no row of another user.
SameAsAbsent ==
    /\ \A uid \in Users, p \in MemoryPayloads :
          /\ last'.op = "insert_memory"
          /\ InsertMemory(uid, p)
          /\ OwnedByOther(memories, p.id, uid)
          => last'.status = MemoryInsertStatus(uid, MemoryDefaults(p),
                                               WithoutOthers(memories, uid))
    /\ last'.op \in {"update_memory", "delete_memory"}
          /\ OwnedByOther(memories, last'.id, last'.uid)
          => last'.status = "notfound"
    /\ \A uid \in Users :
          {m \in memories : MemoriesSelectOwn(uid, m)}
            = {m \in WithoutOthers(memories, uid) : MemoriesSelectOwn(uid, m)}

\* C15: for a select, an insert reusing the id, an update and a delete, what
\* the caller observes when the row exists and belongs to another user is
\* what the caller observes when no row has that id.
C15_ForbiddenLooksAbsent == [][SameAsAbsent]_vars

(***************************************************************************)
(* The life of a chat message (under SpecChatOps).                         *)
(***************************************************************************)
ChatImmutable ==
    /\ \A old \in chats, new \in chats' :
          new.id = old.id => /\ new.role = old.role
                             /\ new.content = old.content
                             /\ new.created_at = old.created_at
    /\ \A old \in chats :
          (~\E new \in chats' : new.id = old.id) =>
              last'.op \in {"insert_chat", "delete_memory"}

\* C16: no statement changes the role, content or created_at of an existing
\* chat message, and a chat message leaves the table only by the prune of an
\* insert or by the cascade of a delete of its memory.
C16_ChatImmutable == [][ChatImmutable]_vars

(***************************************************************************)
(* The role model: inserts and updates of chat messages with the roles a   *)
(* caller may send, among them a text the check does not list and null.    *)
(* u1 owns both memories.                                                  *)
(***************************************************************************)
RoleValues == Roles \cup {"admin", NULL}
\* The ids of the messages of the role model.
RoleIds == {1, 2}

RolePayloads == [id : RoleIds, user_id : Users, memory_id : MemoryIds,
                 role : RoleValues, content : {"c"}, created_at : {DEFAULT}]

InitRoles ==
    /\ memories = {[id |-> m, user_id |-> "u1", title |-> "t",
                    created_at |-> 0, updated_at |-> 0] : m \in MemoryIds}
    /\ records = {}
    /\ chats = {}
    /\ now = 1
    /\ last = Outcome("insert_memory", "u1", "m2", "ok", 0)
    /\ inserted = {}
    /\ steps = 0
    /\ AtRest

NextRoles ==
    \/ \E uid \in Users, p \in RolePayloads, raised \in BOOLEAN :
          InsertChat(uid, p, raised) /\ Quiet
    \/ \E uid \in Users, id \in RoleIds, p \in RolePayloads :
          UpdateChat(uid, id, ChatDefaults(p)) /\ Quiet
    \/ \E uid \in Users, id \in RoleIds : DeleteChat(uid, id) /\ Quiet

SpecRoles == InitRoles /\ [][NextRoles]_vars

RolesValid == \A c \in chats : c.role \in {"user", "assistant", "system"}

BadRoleRejected ==
    /\ \A uid \in Users, p \in RolePayloads, raised \in BOOLEAN :
          /\ last'.op = "insert_chat" /\ last'.uid = uid /\ last'.id = p.id
          /\ p.role \notin {"user", "assistant", "system"}
          /\ InsertChat(uid, p, raised)
          => last'.status \notin {"ok", "notfound"} /\ store' = store
    /\ \A uid \in Users, id \in RoleIds, p \in RolePayloads :
          /\ last'.op = "update_chat" /\ last'.uid = uid /\ last'.id = id
          /\ p.role \notin {"user", "assistant", "system"}
          /\ UpdateChat(uid, id, ChatDefaults(p))
          => last'.status # "ok" /\ store' = store

\* C17: every chat message has a role in {user, assistant, system}; an insert
\* or update that would give a chat message another role is rejected and
\* changes no table.
C17_RoleChecked == []RolesValid /\ [][BadRoleRejected]_vars

\* C17 witness: an update that passed the policies was rejected by the check
\* of a constraint, while messages of two different roles are stored.
C17_Witness ==
    /\ last.op = "update_chat"
    /\ last.status = "invalid"
    /\ \E c, d \in chats : c.role # d.role

(***************************************************************************)
(* The inserted row and its own prune (under SpecInserts).                 *)
(***************************************************************************)
InsertedRowSurvives ==
    last'.op = "insert_chat" /\ last'.status = "ok" =>
        /\ \E c \in chats' : c.id = last'.id
        /\ inserted' \ inserted \subseteq chats'

\* C18: a chat message whose insert is accepted is in the table after the
\* prune fired by that insert, whatever created_at the insert carries.
C18_InsertedRowSurvives == [][InsertedRowSurvives]_vars

(***************************************************************************)
(* The browser client: the Chat component of App.jsx, its handlers and     *)
(* the API calls they await.  A call is sent, answered by the server and   *)
(* delivered to the component, each in a step of its own, so that calls    *)
(* overlap and their answers arrive in any order.  What a handler does     *)
(* after an await uses the values its closure had when it was called.  A   *)
(* list on screen is the set of its rows.  One user is signed in; the      *)
(* server holds two memories of that user, each with a record and a        *)
(* message.                                                                *)
(***************************************************************************)
\* The user's clicks and key presses stop when MaxRequests calls were sent.
MaxRequests == 4

ClientUser == "u1"
\* What gen_random_uuid() may give a row the server creates.
NewMemoryIds == {"m3", "m4"}
NewRecordIds == {"r3"}
NewChatIds == {3}
\* What the user has typed into an input.
Inputs == {"", " ", "t"}

\* String.prototype.trim()
trim(s) == IF s = " " THEN "" ELSE s

\* apiCall(endpoint, method, body), with what the caller's closure holds of
\* the values it reads after the await: selected is its selectedMemory, seen
\* its memories or records.
Request(n, kind, memoryId, body, selected, seen) ==
    [n |-> n, kind |-> kind, memoryId |-> memoryId, body |-> body,
     selected |-> selected, seen |-> seen, phase |-> "sent", data |-> {}]

\* useEffect(() => {...}, [selectedMemory]): the calls it makes when a state
\* write has changed selectedMemory from before to after.
useEffectSelectedMemory(before, after) ==
    IF after # NULL /\ after # before
       THEN {Request(steps, "fetchRecords", after, "", NULL, {}),
             Request(steps + 1, "fetchMessages", after, "", NULL, {})}
       ELSE {}

\* A step of the component leaves the server alone.
ClientOnly == UNCHANGED <<memories, records, chats, now, last, inserted, inflight, peak>>

\* The handler sends the calls of new.
Send(new) ==
    /\ requests' = requests \cup new
    /\ steps' = steps + Cardinality(new)

\* The answer to r has been handled, and the calls of new are sent.
Settle(r, new) ==
    /\ requests' = (requests \ {r}) \cup new
    /\ steps' = steps + Cardinality(new)

\* onClick={() => setSelectedMemory(mem)} of an entry of the memories list
selectMemory(mem) ==
    /\ steps < MaxRequests
    /\ mem \in ui.memories
    /\ ui' = [ui EXCEPT !.selectedMemory = mem.id]
    /\ Send(useEffectSelectedMemory(ui.selectedMemory, mem.id))
    /\ ClientOnly

\* createMemory up to its await.  button: the Create button, which is
\* disabled while loading; the Enter key of the input is not.
createMemory(newMemoryTitle, button) ==
    /\ steps < MaxRequests
    /\ button => ~ui.loading
    /\ IF trim(newMemoryTitle) = ""
          THEN /\ ui' = [ui EXCEPT !.error = "Please enter a memory title"]
               /\ UNCHANGED <<requests, steps>>
          ELSE /\ ui' = [ui EXCEPT !.loading = TRUE, !.error = ""]
               /\ Send({Request(steps, "createMemory", NULL, newMemoryTitle,
                                NULL, ui.memories)})
    /\ ClientOnly

\* createRecord up to its await
createRecord(newRecord) ==
    /\ steps < MaxRequests
    /\ IF trim(newRecord) = "" \/ ui.selectedMemory = NULL
          THEN /\ ui' = [ui EXCEPT !.error = "Please enter record content"]
               /\ UNCHANGED <<requests, steps>>
          ELSE /\ ui' = [ui EXCEPT !.loading = TRUE, !.error = ""]
               /\ Send({Request(steps, "createRecord", ui.selectedMemory, newRecord,
                                NULL, ui.records)})
    /\ ClientOnly

\* sendMessage up to its await
sendMessage(newMessage) ==
    /\ steps < MaxRequests
    /\ IF trim(newMessage) = "" \/ ui.selectedMemory = NULL
          THEN UNCHANGED <<ui, requests, steps>>
          ELSE /\ ui' = [ui EXCEPT !.loading = TRUE, !.error = ""]
               /\ Send({Request(steps, "sendMessage", ui.selectedMemory, newMessage,
                                ui.selectedMemory, {})})
    /\ ClientOnly

\* onClick={() => setError('')} of the error toast
dismissError ==
    /\ ui.error # ""
    /\ ui' = [ui EXCEPT !.error = ""]
    /\ UNCHANGED <<requests, steps>>
    /\ ClientOnly

\* The server's answer to r is on its way.
Answer(r, phase, data) ==
    requests' = (requests \ {r}) \cup {[r EXCEPT !.phase = phase, !.data = data]}

\* The server answers a GET: the rows the caller's select returns.
ServeGet(r, data) ==
    /\ Answer(r, "ok", data)
    /\ UNCHANGED <<memories, records, chats, now, last>>

\* The server handles the call r with the caller's identity.
Serve(r) ==
    /\ r \in requests
    /\ r.phase = "sent"
    /\ CASE r.kind = "fetchMemories" -> ServeGet(r, SelectMemories(ClientUser))
         [] r.kind = "fetchRecords" ->
               ServeGet(r, {x \in SelectRecords(ClientUser) : x.memory_id = r.memoryId})
         [] r.kind = "fetchMessages" ->
               ServeGet(r, {x \in SelectChats(ClientUser) : x.memory_id = r.memoryId})
         [] r.kind = "createMemory" ->
               \E id \in NewMemoryIds :
                   LET p == [id |-> id, user_id |-> ClientUser, title |-> r.body,
                             created_at |-> DEFAULT, updated_at |-> DEFAULT]
                   IN  /\ ~\E m \in memories : m.id = id
                       /\ InsertMemory(ClientUser, p)
                       /\ Answer(r, IF last'.status = "ok" THEN "ok" ELSE "failed",
                                 {MemoryDefaults(p)})
         [] r.kind = "createRecord" ->
               \E id \in NewRecordIds :
                   LET row == [id |-> id, memory_id |-> r.memoryId,
                               user_id |-> ClientUser, content |-> r.body]
                   IN  /\ ~\E x \in records : x.id = id
                       /\ InsertRecord(ClientUser, row)
                       /\ Answer(r, IF last'.status = "ok" THEN "ok" ELSE "failed", {row})
         [] r.kind = "sendMessage" ->
               \E id \in NewChatIds :
                   LET p == [id |-> id, user_id |-> ClientUser, memory_id |-> r.memoryId,
                             role |-> "user", content |-> r.body, created_at |-> DEFAULT]
                   IN  /\ ~\E x \in chats : x.id = id
                       /\ InsertChat(ClientUser, p, FALSE)
                       /\ Answer(r, IF last'.status = "ok" THEN "ok" ELSE "failed", {})
    /\ UNCHANGED <<ui, steps, inserted, inflight, peak>>

\* The call r fails: apiCall throws (the response is not ok, or fetch rejects).
Fail(r) ==
    /\ r \in requests
    /\ r.phase = "sent"
    /\ Answer(r, "failed", {})
    /\ UNCHANGED <<memories, records, chats, now, last, ui, steps, inserted, inflight, peak>>

\* fetchMemories after its await
fetchMemories(r) ==
    /\ r.kind = "fetchMemories"
    /\ IF r.phase = "ok"
          THEN IF r.data # {} /\ r.selected = NULL
                  THEN \E first \in r.data :
                          /\ ui' = [ui EXCEPT !.memories = r.data,
                                              !.selectedMemory = first.id]
                          /\ Settle(r, useEffectSelectedMemory(ui.selectedMemory, first.id))
                  ELSE /\ ui' = [ui EXCEPT !.memories = r.data]
                       /\ Settle(r, {})
          ELSE UNCHANGED ui /\ Settle(r, {})

\* fetchRecords after its await
fetchRecords(r) ==
    /\ r.kind = "fetchRecords"
    /\ ui' = IF r.phase = "ok" THEN [ui EXCEPT !.records = r.data] ELSE ui
    /\ Settle(r, {})

\* fetchMessages after its await
fetchMessages(r) ==
    /\ r.kind = "fetchMessages"
    /\ ui' = IF r.phase = "ok" THEN [ui EXCEPT !.messages = r.data] ELSE ui
    /\ Settle(r, {})

\* createMemory after its await: setMemories([mem, ...memories]) with the
\* memories of the render the handler was called in.
createMemoryDone(r) ==
    /\ r.kind = "createMemory"
    /\ IF r.phase = "ok"
          THEN \E mem \in r.data :
                  /\ ui' = [ui EXCEPT !.memories = {mem} \cup r.seen,
                                      !.selectedMemory = mem.id,
                                      !.loading = FALSE]
                  /\ Settle(r, useEffectSelectedMemory(ui.selectedMemory, mem.id))
          ELSE /\ ui' = [ui EXCEPT !.error = "Failed to create memory", !.loading = FALSE]
               /\ Settle(r, {})

\* createRecord after its await: setRecords([rec, ...records])
createRecordDone(r) ==
    /\ r.kind = "createRecord"
    /\ ui' = IF r.phase = "ok"
                THEN [ui EXCEPT !.records = r.data \cup r.seen, !.loading = FALSE]
                ELSE [ui EXCEPT !.error = "Failed to create record", !.loading = FALSE]
    /\ Settle(r, {})

\* sendMessage after its await: fetchMessages(selectedMemory.id)
sendMessageDone(r) ==
    /\ r.kind = "sendMessage"
    /\ IF r.phase = "ok"
          THEN /\ ui' = [ui EXCEPT !.loading = FALSE]
               /\ Settle(r, {Request(steps, "fetchMessages", r.selected, "", NULL, {})})
          ELSE /\ ui' = [ui EXCEPT !.error = "Failed to send message", !.loading = FALSE]
               /\ Settle(r, {})

\* The answer to r reaches the handler that awaits it.
Deliver(r) ==
    /\ r \in requests
    /\ r.phase # "sent"
    /\ \/ fetchMemories(r)
       \/ fetchRecords(r)
       \/ fetchMessages(r)
       \/ createMemoryDone(r)
       \/ createRecordDone(r)
       \/ sendMessageDone(r)
    /\ ClientOnly

\* The component has mounted: useEffect(..., [user, navigate]) has called
\* fetchMemories.
InitClient ==
    /\ memories = {[id |-> m, user_id |-> ClientUser, title |-> "t",
                    created_at |-> 0, updated_at |-> 0] : m \in MemoryIds}
    /\ records = {[id |-> "r1", memory_id |-> "m1", user_id |-> ClientUser, content |-> "c"],
                  [id |-> "r2", memory_id |-> "m2", user_id |-> ClientUser, content |-> "c"]}
    /\ chats = {Message(1, "m1", 1), Message(2, "m2", 1)}
    /\ now = 1
    /\ last = Outcome("insert_chat", ClientUser, 2, "ok", 0)
    /\ inserted = chats
    /\ inflight = {}
    /\ peak = [pair \in Users \X MemoryIds |-> 0]
    /\ ui = ChatState
    /\ requests = {Request(0, "fetchMemories", NULL, "", NULL, {})}
    /\ steps = 1

NextClient ==
    \/ \E mem \in ui.memories : selectMemory(mem)
    \/ \E title \in Inputs, button \in BOOLEAN : createMemory(title, button)
    \/ \E content \in Inputs : createRecord(content)
    \/ \E message \in Inputs : sendMessage(message)
    \/ dismissError
    \/ \E r \in requests : Serve(r)
    \/ \E r \in requests : Fail(r)
    \/ \E r \in requests : Deliver(r)

SpecClient == InitClient /\ [][NextClient]_vars

(***************************************************************************)
(* Properties of the client (under SpecClient).                            *)
(***************************************************************************)
\* Every call has been answered and its answer handled.
AllAnswered == requests = {}

\* C19: once every call in flight has been answered, the records and the
\* messages on screen are those of the selected memory: none of them belongs
\* to another memory.
C19_ListsOfSelectedMemory ==
    AllAnswered /\ ui.selectedMemory # NULL =>
        /\ \A rec \in ui.records : rec.memory_id = ui.selectedMemory
        /\ \A msg \in ui.messages : msg.memory_id = ui.selectedMemory

\* C20: once every call in flight has been answered, every memory that a
\* createMemory call created is in the memories list on screen.
C20_CreatedMemoriesListed ==
    AllAnswered =>
        \A mem \in memories : mem.id \in NewMemoryIds => mem \in ui.memories
====
